---- MODULE Spec2Model ----
(***************************************************************************)
(* A model of serve.js, the HTTP server of cc-session-logger.              *)
(*                                                                         *)
(* Strings are sequences of one-character strings, so that the string      *)
(* operations of the program (String.prototype.replace, the regular        *)
(* expression of parseLogName, escapeHtml, decodeURIComponent,             *)
(* path.basename, path.join, Array.prototype.sort) are computed the way    *)
(* the program computes them.                                              *)
(***************************************************************************)
EXTENDS Integers, Sequences, FiniteSets, TLC

VARIABLES
    fname,      \* parseLogName: the filename it is applied to
    pcParse,    \* parseLogName: "ready" before the call, "done" after it
    parsed,     \* parseLogName: the record returned
    dir,        \* the log directory on disk: name -> [kind, content]
    proc,       \* the server process: "serving" or "crashed"
    req,        \* req.url of the request handled last
    mode,       \* the branch of the handler that request took
    readPath,   \* the path given to fs.readFileSync by that request
    res,        \* the response written for that request
    via         \* the index link the request came from, if any

vars == <<fname, pcParse, parsed, dir, proc, req, mode, readPath, res, via>>

----------------------------------------------------------------------------
(* Bounds of the model *)

MaxSession == 2
MaxType == 3
MaxRaw == 4
MaxFiles == 2
MaxContent == 2

----------------------------------------------------------------------------
(* JavaScript values and characters *)

\* null and undefined are not strings: no string of the model has an
\* element of more than one character.
null == <<"null">>
undefined == <<"undefined">>

Digits == {"0", "1", "2", "3", "4", "5", "6", "7", "8", "9"}

Lower == {"a", "b", "c", "d", "e", "f", "g", "h", "i", "j", "k", "l", "m",
          "n", "o", "p", "q", "r", "s", "t", "u", "v", "w", "x", "y", "z"}

Upper == {"A", "B", "C", "D", "E", "F", "G", "H", "I", "J", "K", "L", "M",
          "N", "O", "P", "Q", "R", "S", "T", "U", "V", "W", "X", "Y", "Z"}

\* \d and \w of a regular expression without the u and i flags
IsDigit(c) == c \in Digits
IsWord(c) == c \in Digits \cup Lower \cup Upper \cup {"_"}

\* . of a regular expression without the s flag: anything but a line terminator
IsDot(c) == c \notin {"\n", "\r"}

----------------------------------------------------------------------------
(* String operations *)

Slice(s, a, b) == IF a > b THEN <<>> ELSE SubSeq(s, a, b)

StartsWith(s, p) == Len(p) <= Len(s) /\ Slice(s, 1, Len(p)) = p

EndsWith(s, p) ==
    Len(p) <= Len(s) /\ Slice(s, Len(s) - Len(p) + 1, Len(s)) = p

\* String.prototype.indexOf, 1-based; 0 when pat does not occur
IndexOf(s, pat) ==
    LET hits == {i \in 1..(Len(s) - Len(pat) + 1) :
                    Slice(s, i, i + Len(pat) - 1) = pat}
    IN IF hits = {} THEN 0
       ELSE CHOOSE i \in hits : \A j \in hits : i <= j

\* GetSubstitution of ECMAScript for a string pattern (no capture groups):
\* $$ is $, $& the matched text, $' the text after it; any other $ stands
\* for itself. ($ followed by a grave accent, the text before the match, is
\* left out: the module language has no literal for that character, and no
\* string of the model holds one.)
RECURSIVE Substitute(_, _, _)
Substitute(repl, matched, after) ==
    LET d == IndexOf(repl, <<"$">>)
        special == d < Len(repl) /\ repl[d + 1] \in {"$", "&", "'"}
    IN IF d = 0 THEN repl
       ELSE IF special
            THEN Slice(repl, 1, d - 1)
                 \o (CASE repl[d + 1] = "$" -> <<"$">>
                       [] repl[d + 1] = "&" -> matched
                       [] repl[d + 1] = "'" -> after)
                 \o Substitute(Slice(repl, d + 2, Len(repl)), matched, after)
            ELSE Slice(repl, 1, d)
                 \o Substitute(Slice(repl, d + 1, Len(repl)), matched, after)

\* String.prototype.replace(pat, repl) with a string pattern: the first
\* occurrence only, the replacement expanded by GetSubstitution.
StrReplace(s, pat, repl) ==
    LET i == IndexOf(s, pat)
        before == Slice(s, 1, i - 1)
        after == Slice(s, i + Len(pat), Len(s))
    IN IF i = 0 THEN s
       ELSE before \o Substitute(repl, pat, after) \o after

\* String.prototype.replace(/c/g, repl) for a one-character pattern and a
\* replacement without $
RECURSIVE ReplaceAll(_, _, _)
ReplaceAll(s, c, repl) ==
    IF s = <<>> THEN <<>>
    ELSE (IF Head(s) = c THEN repl ELSE <<Head(s)>>)
         \o ReplaceAll(Tail(s), c, repl)

escapeHtml(text) ==
    ReplaceAll(
        ReplaceAll(
            ReplaceAll(
                ReplaceAll(text, "&", <<"&", "a", "m", "p", ";">>),
                "<", <<"&", "l", "t", ";">>),
            ">", <<"&", "g", "t", ";">>),
        "\"", <<"&", "q", "u", "o", "t", ";">>)

----------------------------------------------------------------------------
(* parseLogName *)

MD == <<".", "m", "d">>
SUBAGENT == <<"-", "s", "u", "b", "a", "g", "e", "n", "t", "-">>

NoMatch == [matched |-> FALSE]

\* ^(\d{4}-\d{2}-\d{2})- : the date group and the hyphen after it
DateAt(name) ==
    /\ Len(name) >= 11
    /\ \A i \in {1, 2, 3, 4, 6, 7, 9, 10} : IsDigit(name[i])
    /\ \A i \in {5, 8, 11} : name[i] = "-"

\* (\d{4})- at position p
TimeAt(name, p) ==
    /\ Len(name) >= p + 4
    /\ \A i \in p..(p + 3) : IsDigit(name[i])
    /\ name[p + 4] = "-"

\* SuffixEnds with the agent id written (\w*): an empty id matches
SuffixEnds_emptyId(name, e) ==
    {t \in (e + 11)..(Len(name) - 1) :
        /\ Slice(name, e + 1, e + 10) = SUBAGENT
        /\ \A i \in (e + 11)..t : IsDot(name[i])
        /\ name[t + 1] = "-"
        /\ \A i \in (t + 2)..Len(name) : IsWord(name[i])}

\* -subagent-(.+)-(\w+)$ right after position e: the ends t of group 4 for
\* which the rest of the name matches
SuffixEnds(name, e) ==
    {t \in (e + 11)..(Len(name) - 2) :
        /\ Slice(name, e + 1, e + 10) = SUBAGENT
        /\ \A i \in (e + 11)..t : IsDot(name[i])
        /\ name[t + 1] = "-"
        /\ \A i \in (t + 2)..Len(name) : IsWord(name[i])}

Least(S) == CHOOSE x \in S : \A y \in S : x <= y
Greatest(S) == CHOOSE x \in S : \A y \in S : x >= y

\* the groups 3 to 5 of a match whose session ends at e and whose agent type
\* ends at one of ts (none: the optional group did not take part)
TailGroups(name, p, e, ts) ==
    IF ts # {}
    THEN [matched |-> TRUE, g3 |-> Slice(name, p, e),
          g4 |-> Slice(name, e + 11, Greatest(ts)),
          g5 |-> Slice(name, Greatest(ts) + 2, Len(name))]
    ELSE [matched |-> TRUE, g3 |-> Slice(name, p, e),
          g4 |-> undefined, g5 |-> undefined]

TailAt(name, p, ends) ==
    IF ends = {} THEN NoMatch
    ELSE TailGroups(name, p, Least(ends), SuffixEnds(name, Least(ends)))

\* (\w+?)(?:-subagent-(.+)-(\w+))?$ from position p. The lazy \w+? takes the
\* shortest run after which the rest matches; the optional group is tried
\* before its absence; the greedy .+ takes the longest run that matches.
TailMatch(name, p) ==
    TailAt(name, p,
           {e \in p..Len(name) :
               /\ \A i \in p..e : IsWord(name[i])
               /\ (SuffixEnds(name, e) # {} \/ e = Len(name))})

\* the match with the time group when the tail matches after it, else the
\* match without it
RegexGroups(name, withTime, without) ==
    IF withTime.matched
    THEN [matched |-> TRUE, g1 |-> Slice(name, 1, 10),
          g2 |-> Slice(name, 12, 15), g3 |-> withTime.g3,
          g4 |-> withTime.g4, g5 |-> withTime.g5]
    ELSE IF without.matched
         THEN [matched |-> TRUE, g1 |-> Slice(name, 1, 10),
               g2 |-> undefined, g3 |-> without.g3,
               g4 |-> without.g4, g5 |-> without.g5]
         ELSE NoMatch

\* name.match(/^(\d{4}-\d{2}-\d{2})-(?:(\d{4})-)?(\w+?)(?:-subagent-(.+)-(\w+))?$/):
\* the optional time group is tried before its absence.
RegexMatch(name) ==
    IF ~DateAt(name) THEN NoMatch
    ELSE RegexGroups(name,
                     IF TimeAt(name, 12) THEN TailMatch(name, 17) ELSE NoMatch,
                     TailMatch(name, 12))

\* x || null for a capture group: undefined and "" are falsy
OrNull(x) == IF x = undefined \/ x = <<>> THEN null ELSE x

\* the record parseLogName returns for the stripped name and its match m
LogRecord(name, m) ==
    IF ~m.matched
    THEN [raw |-> name, date |-> <<>>, time |-> <<>>, session |-> <<>>,
          agentType |-> null, agentId |-> null]
    ELSE [raw |-> name,
          date |-> m.g1,
          time |-> IF m.g2 # undefined /\ m.g2 # <<>>
                   THEN Slice(m.g2, 1, 2) \o <<":">> \o Slice(m.g2, 3, Len(m.g2))
                   ELSE <<>>,
          session |-> m.g3,
          agentType |-> OrNull(m.g4),
          agentId |-> OrNull(m.g5)]

NameOf(filename) == StrReplace(filename, MD, <<>>)

parseLogName(filename) == LogRecord(NameOf(filename), RegexMatch(NameOf(filename)))

----------------------------------------------------------------------------
(* decodeURIComponent, path.basename, path.join *)

\* The printable ASCII characters from code 32 to code 126. The grave
\* accent (code 96) has no literal in the module language; "grave" holds its
\* place and equals no character of the model.
Printable ==
    <<" ", "!", "\"", "#", "$", "%", "&", "'", "(", ")", "*", "+", ",", "-", ".", "/",
      "0", "1", "2", "3", "4", "5", "6", "7", "8", "9", ":", ";", "<", "=", ">", "?",
      "@", "A", "B", "C", "D", "E", "F", "G", "H", "I", "J", "K", "L", "M",
      "N", "O", "P", "Q", "R", "S", "T", "U", "V", "W", "X", "Y", "Z",
      "[", "\\", "]", "^", "_", "grave",
      "a", "b", "c", "d", "e", "f", "g", "h", "i", "j", "k", "l", "m",
      "n", "o", "p", "q", "r", "s", "t", "u", "v", "w", "x", "y", "z",
      "{", "|", "}", "~">>

\* the UTF-16 code unit of a printable ASCII character
Code(c) == 31 + (CHOOSE i \in DOMAIN Printable : Printable[i] = c)

HexDigits == <<"0", "1", "2", "3", "4", "5", "6", "7", "8", "9",
               "A", "B", "C", "D", "E", "F">>

IsHex(c) == c \in Digits \cup {"A", "B", "C", "D", "E", "F", "a", "b", "c", "d", "e", "f"}

HexVal(c) ==
    IF c \in Digits \cup {"A", "B", "C", "D", "E", "F"}
    THEN (CHOOSE i \in DOMAIN HexDigits : HexDigits[i] = c) - 1
    ELSE Code(c) - 87

\* what decodeURIComponent gives when it throws
URIError == <<"URIError">>

\* decodeURIComponent: %XX with XX below 80 is the ASCII character of that
\* code ("control" stands for the ones that are not printable); a % not
\* followed by two hex digits throws; so does a byte from 80 on that is not
\* followed by the continuation bytes of a UTF-8 sequence. (A well-formed
\* multi-byte sequence decodes to a character outside ASCII, which the
\* model does not hold: no URL of the model can write a continuation byte,
\* %80 to %BF, so every byte from 80 on throws here.)
RECURSIVE decodeURIComponent(_)
decodeURIComponent(s) ==
    IF s = <<>> THEN <<>>
    ELSE IF Head(s) # "%"
         THEN LET rest == decodeURIComponent(Tail(s))
              IN IF rest = URIError THEN URIError ELSE <<Head(s)>> \o rest
         ELSE IF Len(s) < 3 \/ ~IsHex(s[2]) \/ ~IsHex(s[3]) THEN URIError
              ELSE LET byte == 16 * HexVal(s[2]) + HexVal(s[3])
                       rest == decodeURIComponent(Slice(s, 4, Len(s)))
                   IN IF byte > 127 \/ rest = URIError THEN URIError
                      ELSE IF byte < 32 \/ byte = 127 THEN <<"control">> \o rest
                      ELSE <<Printable[byte - 31]>> \o rest

\* .replace(/^\/+/, "")
RECURSIVE StripLeadingSlashes(_)
StripLeadingSlashes(s) ==
    IF s # <<>> /\ Head(s) = "/" THEN StripLeadingSlashes(Tail(s)) ELSE s

RECURSIVE StripTrailingSlashes(_)
StripTrailingSlashes(s) ==
    IF s # <<>> /\ s[Len(s)] = "/"
    THEN StripTrailingSlashes(Slice(s, 1, Len(s) - 1))
    ELSE s

\* Basename that returns the whole path
Basename_wholePath(p) == p

\* path.basename (POSIX): what follows the last slash, trailing slashes ignored
Basename(p) ==
    LET q == StripTrailingSlashes(p)
        slashes == {i \in DOMAIN q : q[i] = "/"}
        last == IF slashes = {} THEN 0
                ELSE CHOOSE i \in slashes : \A j \in slashes : i >= j
    IN Slice(q, last + 1, Len(q))

\* a path split at its slashes
RECURSIVE SplitPath(_)
SplitPath(p) ==
    LET i == IndexOf(p, <<"/">>)
    IN IF i = 0 THEN <<p>>
       ELSE <<Slice(p, 1, i - 1)>> \o SplitPath(Slice(p, i + 1, Len(p)))

\* path.normalize on segments: empty and "." segments go, ".." takes back
\* the segment before it
RECURSIVE Normalize(_, _)
Normalize(done, segs) ==
    IF segs = <<>> THEN done
    ELSE LET seg == Head(segs)
         IN IF seg = <<>> \/ seg = <<".">> THEN Normalize(done, Tail(segs))
            ELSE IF seg = <<".", ".">> /\ done # <<>> /\ done[Len(done)] # <<".", ".">>
                 THEN Normalize(Slice(done, 1, Len(done) - 1), Tail(segs))
                 ELSE Normalize(Append(done, seg), Tail(segs))

\* path.join(dirPath, name), both as segments relative to the working directory
PathJoin(dirPath, name) == Normalize(<<>>, dirPath \o SplitPath(name))

----------------------------------------------------------------------------
(* The file system *)

\* args.dir: the server is started with --dir logs
LogDir == << <<"l", "o", "g", "s">> >>

\* fs.readFileSync(path, "utf-8") on directory state d: the content of a
\* readable regular file; it throws for a missing entry (ENOENT), a
\* directory (EISDIR), a file without read permission (EACCES), and for
\* any path that is not an entry of the log directory, the only files the
\* model holds.
readFileSync(path, d) ==
    LET name == path[Len(path)]
    IN IF /\ d.exists
          /\ Len(path) = Len(LogDir) + 1
          /\ Slice(path, 1, Len(LogDir)) = LogDir
          /\ name \in DOMAIN d.entries
          /\ d.entries[name].kind = "file"
       THEN [threw |-> FALSE, content |-> d.entries[name].content]
       ELSE [threw |-> TRUE, content |-> undefined]

\* fs.readdirSync(logDir): the names of all entries, of any kind; it throws
\* when the directory is gone
readdirSync(d) ==
    IF d.exists THEN [threw |-> FALSE, names |-> DOMAIN d.entries]
    ELSE [threw |-> TRUE, names |-> {}]

----------------------------------------------------------------------------
(* buildIndex *)

\* The templates. An element of more than one character is a stretch of
\* fixed markup, named here for the text it stands for; none of them holds
\* the placeholder that is searched for in it.
TITLE == <<"T", "I", "T", "L", "E">>
CONTENT == <<"C", "O", "N", "T", "E", "N", "T">>
ENTRIES == <<"E", "N", "T", "R", "I", "E", "S">>

HTML_TEMPLATE ==
    <<"<!DOCTYPE html>...<title>">> \o TITLE
    \o <<"</title>...<pre id=\"content\">">> \o CONTENT
    \o <<"</pre>...</html>">>

INDEX_TEMPLATE ==
    <<"<!DOCTYPE html>...<h1>Session Logs</h1>\n">> \o ENTRIES
    \o <<"\n</body>\n</html>">>

EmptyIndex == <<"<p class=\"empty\">No session logs found.</p>">>

\* order of two strings by UTF-16 code units, as Array.prototype.sort
\* without a comparator orders them
RECURSIVE LexLess(_, _)
LexLess(a, b) ==
    IF b = <<>> THEN FALSE
    ELSE IF a = <<>> THEN TRUE
    ELSE IF Head(a) = Head(b) THEN LexLess(Tail(a), Tail(b))
    ELSE Code(Head(a)) < Code(Head(b))

\* files.sort() of an array holding the distinct strings of S
RECURSIVE SortAscending(_)
SortAscending(S) ==
    IF S = {} THEN <<>>
    ELSE LET least == CHOOSE x \in S : \A y \in S \ {x} : LexLess(x, y)
         IN <<least>> \o SortAscending(S \ {least})

Reverse(q) == [i \in 1..Len(q) |-> q[Len(q) + 1 - i]]

\* the names buildIndex keeps: the try and catch around readdirSync, and
\* the filter
Filtered(listed) ==
    IF listed.threw THEN {}
    ELSE {f \in listed.names : EndsWith(f, MD) /\ ~StartsWith(f, <<".">>)}

\* Listing without the .reverse()
Listing_ascending(d) == SortAscending(Filtered(readdirSync(d)))

\* the array files of buildIndex after the filter and .sort().reverse()
Listing(d) == Reverse(SortAscending(Filtered(readdirSync(d))))

IsSpace(c) == c \in {" ", "\n", "\r", "\t"}

\* String.prototype.trim
RECURSIVE Trim(_)
Trim(s) ==
    IF s # <<>> /\ IsSpace(Head(s)) THEN Trim(Tail(s))
    ELSE IF s # <<>> /\ IsSpace(s[Len(s)]) THEN Trim(Slice(s, 1, Len(s) - 1))
    ELSE s

\* the label of an entry
Label(meta) ==
    (IF meta.date # <<>>
     THEN Trim(meta.date \o <<" ">> \o meta.time)
          \o <<" ", "&", "m", "d", "a", "s", "h", ";", " ">> \o meta.session
     ELSE meta.raw)
    \o (IF meta.agentType # null
        THEN <<"<span class=\"subagent\">">> \o meta.agentType \o <<" ">>
             \o (IF meta.agentId # null THEN meta.agentId ELSE <<>>) \o <<"</span>">>
        ELSE <<>>)

\* the markup of an entry, with its two links
EntryPart(f) ==
    <<"<div class=\"session\">  <span class=\"session-name\">">>
    \o Label(parseLogName(f))
    \o <<"</span>  <span class=\"links\">    <a href=\"/">>
    \o StrReplace(f, MD, <<>>)
    \o <<"\">view</a>    <a href=\"/">> \o f
    \o <<"\">raw</a>  </span></div>">>

\* parts.join("\n")
RECURSIVE Join(_)
Join(parts) ==
    IF parts = <<>> THEN <<>>
    ELSE IF Len(parts) = 1 THEN Head(parts)
    ELSE Head(parts) \o <<"\n">> \o Join(Tail(parts))

\* the page for the array files
IndexPage(files) ==
    IF files = <<>> THEN StrReplace(INDEX_TEMPLATE, ENTRIES, EmptyIndex)
    ELSE StrReplace(INDEX_TEMPLATE, ENTRIES,
                    Join([i \in 1..Len(files) |-> EntryPart(files[i])]))

buildIndex(d) == IndexPage(Listing(d))

\* The links of an index page as the client reads them: for each entry the
\* targets of its view and raw anchors, without the leading slash.
RECURSIVE PageLinks(_)

\* the raw target, up to the markup that closes the entry at c
LinksRaw(view, afterR, c) ==
    IF c = 0 THEN <<>>
    ELSE <<[view |-> view, raw |-> Slice(afterR, 1, c - 1)]>>
         \o PageLinks(Slice(afterR, c + 1, Len(afterR)))

\* the view target, up to the markup that opens the raw anchor at r
LinksView(afterV, r) ==
    IF r = 0 THEN <<>>
    ELSE LinksRaw(Slice(afterV, 1, r - 1), Slice(afterV, r + 1, Len(afterV)),
                  IndexOf(Slice(afterV, r + 1, Len(afterV)),
                          <<"\">raw</a>  </span></div>">>))

LinksFrom(body, v) ==
    IF v = 0 THEN <<>>
    ELSE LinksView(Slice(body, v + 1, Len(body)),
                   IndexOf(Slice(body, v + 1, Len(body)),
                           <<"\">view</a>    <a href=\"/">>))

PageLinks(body) ==
    LinksFrom(body, IndexOf(body, <<"</span>  <span class=\"links\">    <a href=\"/">>))

----------------------------------------------------------------------------
(* The request handler *)

NoRequest == [url |-> undefined]
NoResponse == [code |-> 0]
NoLink == [link |-> "none"]

NotFound == <<"N", "o", "t", " ", "f", "o", "u", "n", "d">>

\* respond(code, body, contentType): every response carries the CORS header
respond(code, body, contentType) ==
    [code |-> code, body |-> body, contentType |-> contentType,
     allowOrigin |-> "*"]

\* RawResponse answering a failed read with an empty 200
RawResponse_emptyOnFailure(filePath, file) ==
    [proc |-> "serving", mode |-> "raw", readPath |-> filePath,
     res |-> IF ~file.threw
             THEN respond(200, file.content, "text/plain; charset=utf-8")
             ELSE respond(200, <<>>, "text/plain; charset=utf-8")]

\* the try and catch of the raw branch, file being what readFileSync gave
RawResponse(filePath, file) ==
    [proc |-> "serving", mode |-> "raw", readPath |-> filePath,
     res |-> IF ~file.threw
             THEN respond(200, file.content, "text/plain; charset=utf-8")
             ELSE respond(404, NotFound, "text/plain")]

\* Raw markdown: /filename.md
RawBranch(urlPath, d) ==
    RawResponse(PathJoin(LogDir, Basename(urlPath)),
                readFileSync(PathJoin(LogDir, Basename(urlPath)), d))

\* the try and catch of the rendered branch
RenderedResponse(urlPath, mdFile, file) ==
    [proc |-> "serving", mode |-> "rendered", readPath |-> mdFile,
     res |-> IF ~file.threw
             THEN respond(200,
                          StrReplace(StrReplace(HTML_TEMPLATE, TITLE,
                                                escapeHtml(Basename(urlPath))),
                                     CONTENT, escapeHtml(file.content)),
                          "text/html")
             ELSE respond(404, NotFound, "text/plain")]

\* Rendered HTML: /filename (no .md)
RenderedBranch(urlPath, d) ==
    RenderedResponse(urlPath, PathJoin(LogDir, Basename(urlPath) \o MD),
                     readFileSync(PathJoin(LogDir, Basename(urlPath) \o MD), d))

\* the decoded result, without its leading slashes: .replace(/^\/+/, "")
Stripped(decoded) ==
    IF decoded = URIError THEN URIError ELSE StripLeadingSlashes(decoded)

\* decodeURIComponent(req.url || "/").replace(/^\/+/, ""), or URIError
UrlPath(url) == Stripped(decodeURIComponent(IF url = <<>> THEN <<"/">> ELSE url))

\* The request listener from urlPath on. decodeURIComponent is called
\* outside any try: when it throws, the exception leaves the listener, no
\* response is written and, with no uncaughtException handler installed,
\* the process ends.
Dispatch(urlPath, d) ==
    IF urlPath = URIError
    THEN [proc |-> "crashed", mode |-> "none", readPath |-> <<>>,
          res |-> NoResponse]
    ELSE IF urlPath = <<>>
         THEN [proc |-> "serving", mode |-> "index", readPath |-> <<>>,
               res |-> respond(200, buildIndex(d), "text/html")]
         ELSE IF EndsWith(urlPath, MD) THEN RawBranch(urlPath, d)
              ELSE RenderedBranch(urlPath, d)

\* the request listener on one request
Handle(url, d) == Dispatch(UrlPath(url), d)

----------------------------------------------------------------------------
(* The filenames parseLogName is applied to *)

\* Every string over alpha with a length from lo to hi
Strings(alpha, lo, hi) == UNION {[1..n -> alpha] : n \in lo..hi}

\* the examples of the documentation
ExampleSubagent ==
    <<"2", "0", "2", "4", "-", "0", "1", "-", "1", "5", "-", "0", "9", "0", "0", "-",
      "d", "e", "p", "l", "o", "y", "-", "s", "u", "b", "a", "g", "e", "n", "t", "-",
      "r", "e", "v", "i", "e", "w", "e", "r", "-", "7", "f", "3", "a", ".", "m", "d">>

ExampleNotes == <<"n", "o", "t", "e", "s", ".", "m", "d">>

\* a well-formed date and two malformed ones
DateParts ==
    {<<"2", "0", "2", "4", "-", "0", "1", "-", "1", "5">>,
     <<"2", "0", "2", "4", "-", "1", "-", "1", "5">>,
     <<"2", "0", "2", "4", "_", "0", "1", "-", "1", "5">>}

\* no time, a time, and a time a digit short
TimeParts ==
    {<<>>, <<"0", "9", "0", "0", "-">>, <<"0", "9", "0", "-">>}

SessionParts == Strings({"s", "7"}, 1, MaxSession)

TypeParts == Strings({".", "m", "d", "-"}, 1, MaxType)

\* an agent id, and the empty one that the grammar does not allow
IdParts == {<<"x">>, <<"7", "f">>, <<>>}

SuffixParts ==
    {<<>>} \cup {SUBAGENT \o ty \o <<"-">> \o id : ty \in TypeParts, id \in IdParts}

ShapedNames ==
    {d \o <<"-">> \o tm \o s \o sfx :
        d \in DateParts, tm \in TimeParts, s \in SessionParts, sfx \in SuffixParts}

RawNames == Strings({"a", ".", "m", "d"}, 0, MaxRaw)

ParseInputs ==
    {ExampleSubagent, ExampleNotes}
    \cup {b \o ext : b \in ShapedNames \cup RawNames, ext \in {<<>>, MD}}

----------------------------------------------------------------------------
(* The state of the server before any request *)

ServerIdle ==
    /\ proc = "serving"
    /\ req = NoRequest
    /\ mode = "none"
    /\ readPath = <<>>
    /\ res = NoResponse
    /\ via = NoLink

----------------------------------------------------------------------------
(* parseLogName applied to one filename *)

InitParse ==
    /\ fname \in ParseInputs
    /\ pcParse = "ready"
    /\ parsed = [raw |-> undefined]
    /\ dir = [exists |-> TRUE, entries |-> <<>>]
    /\ ServerIdle

ParseLogName ==
    /\ pcParse = "ready"
    /\ parsed' = parseLogName(fname)
    /\ pcParse' = "done"
    /\ UNCHANGED <<fname, dir, proc, req, mode, readPath, res, via>>

NextParse == ParseLogName

SpecParse == InitParse /\ [][NextParse]_vars

----------------------------------------------------------------------------
(* The server: directories, requests *)

Dated == <<"2", "0", "2", "4", "-", "0", "1", "-", "1", "5", "-", "s">>

DatedSubagent ==
    <<"2", "0", "2", "4", "-", "0", "1", "-", "1", "5", "-", "0", "9", "0", "0", "-", "s">>
    \o SUBAGENT \o <<"t", "-", "x">>

\* names before the extension: plain, with .md inside, hidden, with a
\* character that is special in a URL, dated, dated with a sub-agent
Stems == {<<"a">>, <<"a", ".", "m", "d">>, <<".", "h">>, <<"%">>, Dated, DatedSubagent}

\* the names an entry of the directory can have; "n" has no extension
FileNames == {stem \o MD : stem \in Stems} \cup {<<"n">>}

Hello ==
    <<"#", " ", "H", "e", "l", "l", "o", " ", "<", "w", "o", "r", "l", "d", ">">>

\* an entry is a readable regular file, a directory, or a file the process
\* may not read
EntryKinds(contents) ==
    {[kind |-> "file", content |-> c] : c \in contents}
    \cup {[kind |-> "dir", content |-> <<>>], [kind |-> "locked", content |-> <<>>]}

\* the log directory with at most MaxFiles entries, or gone since the launch
Directories ==
    {[exists |-> FALSE, entries |-> <<>>]}
    \cup {[exists |-> TRUE, entries |-> e] :
            e \in UNION {[S -> EntryKinds({Hello})] :
                            S \in {T \in SUBSET FileNames : Cardinality(T) <= MaxFiles}}}

\* the log directory holding one readable file
RenderDirectories ==
    {[exists |-> TRUE, entries |-> [n \in {name} |-> [kind |-> "file", content |-> c]]] :
        name \in FileNames,
        c \in {Hello} \cup Strings({"a", "<", ">", "&", "\"", "$"}, 0, MaxContent)}

\* req.url of the requests: the root, every name with and without its
\* extension, names that are not in the directory, percent-encoded and
\* malformed URLs, and paths with further segments
Urls ==
    {<<>>, <<"/">>}
    \cup {<<"/">> \o stem : stem \in Stems}
    \cup {<<"/">> \o name : name \in FileNames}
    \cup {<<"/", "m">>, <<"/", "m", ".", "m", "d">>,
          <<"/", "%", "2", "5">>, <<"/", "%", "2", "5", ".", "m", "d">>,
          <<"/", "%", "2">>,
          <<"/", ".", ".">>,
          <<"/", ".", ".", "/", "a", ".", "m", "d">>,
          <<"/", ".", ".", "%", "2", "F", "a", ".", "m", "d">>,
          <<"/", ".", ".", "/", "a">>,
          <<"/", "x", "/", "a", ".", "m", "d">>,
          <<"/", "/", "a", ".", "m", "d">>,
          <<"/", "a", ".", "m", "d", "/">>}

ParseIdle ==
    /\ fname = <<>>
    /\ pcParse = "ready"
    /\ parsed = [raw |-> undefined]

Init ==
    /\ dir \in Directories
    /\ ServerIdle
    /\ ParseIdle

InitRender ==
    /\ dir \in RenderDirectories
    /\ ServerIdle
    /\ ParseIdle

\* the state after the listener ran on url with outcome out; link names the
\* index link the request came from
Served(url, out, link) ==
    /\ proc' = out.proc
    /\ mode' = out.mode
    /\ readPath' = out.readPath
    /\ res' = out.res
    /\ req' = [url |-> url]
    /\ via' = link
    /\ UNCHANGED <<dir, fname, pcParse, parsed>>

\* the server handles a request for url
Request(url) ==
    /\ proc = "serving"
    /\ Served(url, Handle(url, dir), NoLink)

\* the target of a link of an entry
Target(entry, link) == IF link = "view" THEN entry.view ELSE entry.raw

\* the client follows the view or the raw link of entry i of the index page
\* it got last, and the server handles that request; the entry was built
\* for file i of the listing
FollowLink(i, link) ==
    /\ proc = "serving"
    /\ mode = "index"
    /\ i \in 1..Len(PageLinks(res.body))
    /\ Served(<<"/">> \o Target(PageLinks(res.body)[i], link),
              Handle(<<"/">> \o Target(PageLinks(res.body)[i], link), dir),
              [link |-> link, file |-> Listing(dir)[i]])

Next ==
    \/ \E url \in Urls : Request(url)
    \/ \E i \in 1..Cardinality(FileNames), link \in {"view", "raw"} : FollowLink(i, link)

Spec == Init /\ [][Next]_vars

SpecRender == InitRender /\ [][Next]_vars

----------------------------------------------------------------------------
(* The naming grammar DATE[-TIME]-SESSION[-subagent-TYPE-ID], as documented *)

\* a filename with its .md extension stripped
StripExt(f) == IF EndsWith(f, MD) THEN Slice(f, 1, Len(f) - Len(MD)) ELSE f

AllWord(s) == \A i \in DOMAIN s : IsWord(s[i])
AllDigit(s) == \A i \in DOMAIN s : IsDigit(s[i])

\* the agent parts a tail (what follows the session) encodes
GrammarAgents(tail) ==
    IF tail = <<>> THEN {[agentType |-> null, agentId |-> null]}
    ELSE {[agentType |-> Slice(tail, 11, t), agentId |-> Slice(tail, t + 2, Len(tail))] :
            t \in {u \in 11..(Len(tail) - 2) :
                    /\ Slice(tail, 1, 10) = SUBAGENT
                    /\ tail[u + 1] = "-"
                    /\ AllWord(Slice(tail, u + 2, Len(tail)))}}

\* what follows the date and its hyphen, from position p on: the session
\* and agent parts it encodes
GrammarTails(name, p) ==
    UNION {{[session |-> Slice(name, p, e), agentType |-> a.agentType,
             agentId |-> a.agentId] :
                a \in GrammarAgents(Slice(name, e + 1, Len(name)))} :
           e \in {x \in p..Len(name) : AllWord(Slice(name, p, x))}}

GrammarDate(name) ==
    /\ Len(name) >= 11
    /\ AllDigit(Slice(name, 1, 4)) /\ name[5] = "-"
    /\ AllDigit(Slice(name, 6, 7)) /\ name[8] = "-"
    /\ AllDigit(Slice(name, 9, 10)) /\ name[11] = "-"

GrammarTime(name) ==
    Len(name) >= 16 /\ AllDigit(Slice(name, 12, 15)) /\ name[16] = "-"

\* Every reading of an extension-stripped name under the grammar: the
\* fields it encodes, the time as HH:MM. Empty when the name does not match.
GrammarRecords(name) ==
    IF ~GrammarDate(name) THEN {}
    ELSE {[date |-> Slice(name, 1, 10), time |-> <<>>, session |-> r.session,
           agentType |-> r.agentType, agentId |-> r.agentId] :
              r \in GrammarTails(name, 12)}
         \cup
         (IF ~GrammarTime(name) THEN {}
          ELSE {[date |-> Slice(name, 1, 10),
                 time |-> Slice(name, 12, 13) \o <<":">> \o Slice(name, 14, 15),
                 session |-> r.session,
                 agentType |-> r.agentType, agentId |-> r.agentId] :
                    r \in GrammarTails(name, 17)})

Fields(r) ==
    [date |-> r.date, time |-> r.time, session |-> r.session,
     agentType |-> r.agentType, agentId |-> r.agentId]

----------------------------------------------------------------------------
(* Claims about parseLogName, under SpecParse *)

\* C2: for every filename whose extension-stripped name matches the grammar,
\* parseLogName returns date, time (as HH:MM, or empty), session, agentType
\* and agentId as the filename encodes them; the documented example parses
\* to 2024-01-15, 09:00, deploy, reviewer, 7f3a.
C2_ParseRecoversFields ==
    pcParse = "done" =>
        /\ GrammarRecords(StripExt(fname)) # {}
              => Fields(parsed) \in GrammarRecords(StripExt(fname))
        /\ fname = ExampleSubagent =>
              Fields(parsed) =
                 [date |-> <<"2", "0", "2", "4", "-", "0", "1", "-", "1", "5">>,
                  time |-> <<"0", "9", ":", "0", "0">>,
                  session |-> <<"d", "e", "p", "l", "o", "y">>,
                  agentType |-> <<"r", "e", "v", "i", "e", "w", "e", "r">>,
                  agentId |-> <<"7", "f", "3", "a">>]

\* C3: for every filename that does not match the grammar, parseLogName
\* returns a record whose rawName is the filename with its .md extension
\* stripped, with date, time and session empty and agentType and agentId
\* absent; notes.md gives rawName notes.
C3_FallbackRecord ==
    (pcParse = "done" /\ GrammarRecords(StripExt(fname)) = {}) =>
        parsed = [raw |-> StripExt(fname), date |-> <<>>, time |-> <<>>,
                  session |-> <<>>, agentType |-> null, agentId |-> null]

\* C4: in every record parseLogName returns, agentType and agentId are both
\* present or both absent.
C4_AgentPairing ==
    pcParse = "done" => ((parsed.agentType = null) <=> (parsed.agentId = null))

\* C4 witness: a record returned with both agent fields present
C4_Witness ==
    /\ pcParse = "done"
    /\ parsed.agentType # null
    /\ parsed.agentId # null

----------------------------------------------------------------------------
(* Claims about the request handler *)

\* C1: no failure in the request path crashes the process: for every
\* request URL, malformed percent-encoding included, the handler produces a
\* response and the process keeps serving; no exception escapes the handler.
C1_HandlerNeverThrows ==
    /\ proc = "serving"
    /\ req # NoRequest => res.code # 0

\* the filenames of the entries of an index page, in page order
PageFiles(body) == [i \in 1..Len(PageLinks(body)) |-> PageLinks(body)[i].raw]

\* C5: the entries of the page buildIndex returns are in strictly descending
\* lexicographic order of filename.
C5_IndexDescending ==
    mode = "index" =>
        \A i \in 1..(Len(PageFiles(res.body)) - 1) :
            LexLess(PageFiles(res.body)[i + 1], PageFiles(res.body)[i])

\* C5 witness: an index page with at least two entries
C5_Witness == mode = "index" /\ Len(PageFiles(res.body)) >= 2

\* C6: the entries buildIndex lists are exactly the directory entries that
\* are regular files, whose name ends in .md and does not begin with '.'; a
\* subdirectory named x.md is never listed.
C6_ListsRegularFilesOnly ==
    mode = "index" =>
        {PageFiles(res.body)[i] : i \in 1..Len(PageFiles(res.body))}
        = {n \in DOMAIN dir.entries :
              /\ dir.entries[n].kind \in {"file", "locked"}
              /\ EndsWith(n, MD)
              /\ ~StartsWith(n, <<".">>)}

\* a character with &, <, > and " escaped
EscapedChar(c) ==
    CASE c = "&" -> <<"&", "a", "m", "p", ";">>
      [] c = "<" -> <<"&", "l", "t", ";">>
      [] c = ">" -> <<"&", "g", "t", ";">>
      [] c = "\"" -> <<"&", "q", "u", "o", "t", ";">>
      [] OTHER -> <<c>>

RECURSIVE Escaped(_)
Escaped(text) ==
    IF text = <<>> THEN <<>> ELSE EscapedChar(Head(text)) \o Escaped(Tail(text))

\* the page template with its title and content slots filled
FilledTemplate(title, content) ==
    <<"<!DOCTYPE html>...<title>">> \o title
    \o <<"</title>...<pre id=\"content\">">> \o content
    \o <<"</pre>...</html>">>

\* the request is for the extension-less path /N of a readable file N.md
ViewOfReadable ==
    /\ req # NoRequest
    /\ UrlPath(req.url) \notin {URIError, <<>>}
    /\ ~EndsWith(UrlPath(req.url), MD)
    /\ \A i \in DOMAIN UrlPath(req.url) : UrlPath(req.url)[i] # "/"
    /\ (UrlPath(req.url) \o MD) \in DOMAIN dir.entries
    /\ dir.entries[UrlPath(req.url) \o MD].kind = "file"

\* C7: for every readable file N.md and every content, a request for /N
\* returns 200 with a page whose content slot holds exactly the escaped
\* content and whose title slot holds exactly the escaped N.
C7_RenderedEmbedsEscaped ==
    ViewOfReadable =>
        /\ res.code = 200
        /\ res.body =
              FilledTemplate(Escaped(UrlPath(req.url)),
                             Escaped(dir.entries[UrlPath(req.url) \o MD].content))

\* the path last given to readFileSync names a readable regular file
ReadableTarget ==
    /\ dir.exists
    /\ Len(readPath) = Len(LogDir) + 1
    /\ Slice(readPath, 1, Len(LogDir)) = LogDir
    /\ readPath[Len(readPath)] \in DOMAIN dir.entries
    /\ dir.entries[readPath[Len(readPath)]].kind = "file"

\* C8: in Raw and in Rendered mode, if the resolved file is missing or
\* cannot be read as a file, the response is 404 with the plain-text
\* not-found body; /m and /m.md, which no directory holds, give 404.
C8_NotFound ==
    /\ (mode \in {"raw", "rendered"} /\ ~ReadableTarget) =>
          res = [code |-> 404, body |-> NotFound, contentType |-> "text/plain",
                 allowOrigin |-> "*"]
    /\ (req # NoRequest /\ req.url \in {<<"/", "m">>, <<"/", "m", ".", "m", "d">>}) =>
          res.code = 404

\* C8 witness: a raw request for an entry that is a directory, answered 404
C8_Witness ==
    /\ mode = "raw"
    /\ res.code = 404
    /\ readPath[Len(readPath)] \in DOMAIN dir.entries
    /\ dir.entries[readPath[Len(readPath)]].kind = "dir"

NoSlash(s) == \A i \in DOMAIN s : s[i] # "/"

\* b is the last segment of path p, trailing slashes aside
IsLastSegment(b, p) ==
    /\ b # <<>>
    /\ NoSlash(b)
    /\ \E k \in 0..Len(p) :
          /\ k + Len(b) <= Len(p)
          /\ Slice(p, k + 1, k + Len(b)) = b
          /\ (k = 0 \/ p[k] = "/")
          /\ \A i \in (k + Len(b) + 1)..Len(p) : p[i] = "/"

\* C9: the only file the handler attempts to read is a direct child of the
\* configured directory, named basename(path) in Raw mode and
\* basename(path) + '.md' in Rendered mode, whatever the request path.
C9_BasenameConfinement ==
    /\ mode \in {"none", "index"} => readPath = <<>>
    /\ mode \in {"raw", "rendered"} =>
          /\ Len(readPath) = Len(LogDir) + 1
          /\ Slice(readPath, 1, Len(LogDir)) = LogDir
          /\ NoSlash(readPath[Len(readPath)])
          /\ readPath[Len(readPath)] \notin {<<>>, <<".">>, <<".", ".">>}
    /\ mode = "raw" =>
          IsLastSegment(readPath[Len(readPath)], UrlPath(req.url))
    /\ mode = "rendered" =>
          /\ EndsWith(readPath[Len(readPath)], MD)
          /\ IsLastSegment(StripExt(readPath[Len(readPath)]), UrlPath(req.url))

\* C9 witness: a request whose path climbs out with an encoded slash, and
\* the file read for it is the child a.md of the log directory
C9_Witness ==
    /\ req = [url |-> <<"/", ".", ".", "%", "2", "F", "a", ".", "m", "d">>]
    /\ readPath = LogDir \o << <<"a", ".", "m", "d">> >>

\* C10: for every entry buildIndex lists for a file F, the raw link is
\* routed to Raw mode and reads F, and the view link is routed to Rendered
\* mode and reads F, the directory being unchanged in between.
C10_LinksReachFile ==
    via # NoLink =>
        /\ mode = (IF via.link = "raw" THEN "raw" ELSE "rendered")
        /\ readPath = LogDir \o <<via.file>>

====
